---- MODULE Spec2Model ----
(***************************************************************************)
(* The note edit route, notes.$noteId_.edit.tsx: the loader (read          *)
(* handler), the action (write handler) and the NoteEdit component.        *)
(*                                                                         *)
(* JavaScript values are tagged records: [kind |-> "undefined"],           *)
(* [kind |-> "null"], [kind |-> "string", value |-> s], [kind |-> "File"]. *)
(* Strings are TLA+ strings; Len is String.prototype.length.               *)
(***************************************************************************)
EXTENDS Naturals, Sequences, FiniteSets

VARIABLES
    notes,       \* db.note: the stored notes, a sequence of [id, title, content]
    inflight,    \* the action calls suspended at an await, by slot
    last,        \* the handler call that completed last: its inputs and response
    hooks,       \* NoteEdit: what its hooks return (actionData, navigation, hydrated)
    mount,       \* NoteEdit: "unmounted", "rendered" (mount effect pending), "mounted"
    view         \* NoteEdit: the output of its last render

vars == <<notes, inflight, last, hooks, mount, view>>
serverVars == <<notes, inflight, last>>
clientVars == <<hooks, mount, view>>

(***************************************************************************)
(* Bounds of the model.                                                    *)
(***************************************************************************)
MaxInFlight == 2

Slots == 1..MaxInFlight

(***************************************************************************)
(* JavaScript values.                                                      *)
(***************************************************************************)
Undefined == [kind |-> "undefined"]
Null == [kind |-> "null"]
File == [kind |-> "File"]
Str(s) == [kind |-> "string", value |-> s]

typeof(v) ==
    CASE v.kind = "undefined" -> "undefined"
      [] v.kind = "string" -> "string"
      [] OTHER -> "object"

\* ToBoolean of a value, as a condition sees it.
Truthy(v) ==
    CASE v.kind = "string" -> v.value # ""
      [] v.kind = "File" -> TRUE
      [] OTHER -> FALSE

\* A value inside a template literal.
TemplateString(v) ==
    CASE v.kind = "string" -> v.value
      [] v.kind = "undefined" -> "undefined"
      [] v.kind = "null" -> "null"
      [] OTHER -> "[object File]"

RECURSIVE Repeat(_, _)
Repeat(s, n) ==
    IF n = 0 THEN ""
    ELSE LET h == Repeat(s, n \div 2)
         IN  IF n % 2 = 0 THEN h \o h ELSE h \o h \o s

(***************************************************************************)
(* The program's constants.                                                *)
(***************************************************************************)
titleMinLength == 1
titleMaxLength == 100
contentMinLength == 1
contentMaxLength == 10000

(***************************************************************************)
(* Responses.                                                              *)
(***************************************************************************)
NoResponse == [kind |-> "none"]

\* new Response(text, {status}), thrown
Thrown(text, status) == [kind |-> "thrown", status |-> status, text |-> text]

\* json(data, {status})
json(data, status) == [kind |-> "json", status |-> status, data |-> data]

\* redirect(url): a 302 with a Location header
redirect(url) == [kind |-> "redirect", status |-> 302, location |-> url]

\* invariantResponse(condition, message): throws a 400 Response with the
\* message when the condition is falsy; NoResponse stands for "did not throw".
invariantResponse(condition, message) ==
    IF condition THEN NoResponse ELSE Thrown(message, 400)

(***************************************************************************)
(* The database.                                                           *)
(***************************************************************************)
\* db.note.findFirst({where: {id: {equals: id}}}): the first note with that
\* id, or Null.
findFirst(table, id) ==
    IF \E i \in 1..Len(table) : Str(table[i].id) = id
    THEN LET i == CHOOSE i \in 1..Len(table) :
                    /\ Str(table[i].id) = id
                    /\ \A j \in 1..(i - 1) : Str(table[j].id) # id
         IN  [kind |-> "note", note |-> table[i]]
    ELSE Null

\* updateNote({id, title, content}): sets the title and content of the note
\* with that id.
updateNote(table, arg) ==
    [i \in 1..Len(table) |->
        IF Str(table[i].id) = arg.id
        THEN [table[i] EXCEPT !.title = arg.title, !.content = arg.content]
        ELSE table[i]]

(***************************************************************************)
(* loader                                                                  *)
(***************************************************************************)
\* Variant: the loader returns the first stored note, whatever the id.
loader_first(table, params) ==
    LET note == findFirst(table, params.noteId)
    IN  IF note = Null
        THEN Thrown("Note note found", 404)
        ELSE json([note |-> [title |-> table[1].title,
                             content |-> table[1].content]], 200)

loader(table, params) ==
    LET note == findFirst(table, params.noteId)
    IN  IF note = Null
        THEN Thrown("Note note found", 404)
        ELSE json([note |-> [title |-> note.note.title,
                             content |-> note.note.content]], 200)

\* ErrorBoundary: what the 404 status handler renders: a <p> whose
\* children are two texts and, between them, params.noteId.
ErrorBoundary(response, params) ==
    IF response.status = 404
    THEN [tag |-> "p",
          children |-> <<Str("No note with the id \""), params.noteId,
                         Str("\" exists")>>]
    ELSE [tag |-> "GeneralErrorBoundary", children |-> <<>>]

(***************************************************************************)
(* action                                                                  *)
(***************************************************************************)
\* Variant: the content is validated only when the title passed.
ActionErrors_shortCircuit(title, content) ==
    LET titleErrors ==
            (IF Len(title) < titleMinLength
             THEN <<"Title must be at least 1 character">> ELSE <<>>)
            \o (IF Len(title) > titleMaxLength
                THEN <<"Title must be at most 100 characters">> ELSE <<>>)
    IN  [formErrors |-> <<>>,
         fieldErrors |->
            [title |-> titleErrors,
             content |->
                IF titleErrors # <<>> THEN <<>>
                ELSE (IF Len(content) < contentMinLength
                      THEN <<"Content must be at least 1 character">> ELSE <<>>)
                     \o (IF Len(content) > contentMaxLength
                         THEN <<"Content must be at most 10000 characters">>
                         ELSE <<>>)]]

\* The errors object the action builds from a string title and content.
ActionErrors(title, content) ==
    [formErrors |-> <<>>,
     fieldErrors |->
        [title |->
            (IF Len(title) < titleMinLength
             THEN <<"Title must be at least 1 character">> ELSE <<>>)
            \o (IF Len(title) > titleMaxLength
                THEN <<"Title must be at most 100 characters">> ELSE <<>>),
         content |->
            (IF Len(content) < contentMinLength
             THEN <<"Content must be at least 1 character">> ELSE <<>>)
            \o (IF Len(content) > contentMaxLength
                THEN <<"Content must be at most 10000 characters">> ELSE <<>>)]]

\* Variant: only the form errors count.
hasErrors_formOnly(errors) ==
    Len(errors.formErrors) # 0

\* Variant: `every` in place of `some`.
hasErrors_every(errors) ==
    \/ Len(errors.formErrors) # 0
    \/ \A f \in DOMAIN errors.fieldErrors : Len(errors.fieldErrors[f]) # 0

hasErrors(errors) ==
    \/ Len(errors.formErrors) # 0
    \/ \E f \in DOMAIN errors.fieldErrors : Len(errors.fieldErrors[f]) # 0

\* Variant: the check is made of the username param.
noteIdRequired_username(params) ==
    invariantResponse(Truthy(params.username), "noteId param is required")

\* The check of the route param the action starts with.
noteIdRequired(params) ==
    invariantResponse(Truthy(params.noteId), "noteId param is required")

\* Variant: a title that is not a string is reported as a field error.
fieldsRequired_asFieldError(form) ==
    IF typeof(form.title) # "string"
    THEN json([status |-> "error",
               errors |->
                  [formErrors |-> <<>>,
                   fieldErrors |->
                      [title |-> <<"Title must be at least 1 character">>,
                       content |-> <<>>]]], 400)
    ELSE invariantResponse(typeof(form.content) = "string",
                           "content must be a string")

\* The checks of the two form fields, in the order the action makes them:
\* the first that fails is the one thrown.
fieldsRequired(form) ==
    LET t == invariantResponse(typeof(form.title) = "string",
                               "title must be a string")
        c == invariantResponse(typeof(form.content) = "string",
                               "content must be a string")
    IN  IF t # NoResponse THEN t ELSE c

\* The argument the action passes to updateNote.
updateNoteArg(params, title, content) ==
    [id |-> params.noteId, title |-> title, content |-> content]

\* Variant: the redirect goes back to the edit route.
redirectUrl_edit(params) ==
    "/users/" \o TemplateString(params.username)
        \o "/notes/" \o TemplateString(params.noteId) \o "/edit"

\* The URL the action redirects to.
redirectUrl(params) ==
    "/users/" \o TemplateString(params.username)
        \o "/notes/" \o TemplateString(params.noteId)

(***************************************************************************)
(* The inputs the handlers are called with.                                *)
(***************************************************************************)
Usernames == {Str("kody")}
LoaderParams == [username : Usernames, noteId : {Str("n1"), Str("n2"), Str("n9")}]
\* The action is called for a stored note, or without the noteId param.
ActionParams == [username : Usernames, noteId : {Undefined, Str("n1")}]

Titles ==
    {Null, File, Str(""), Str("Hi"),
     Str(Repeat("t", titleMaxLength)), Str(Repeat("t", titleMaxLength + 1))}
Contents ==
    {Null, File, Str(""), Str("Body"),
     Str(Repeat("c", contentMaxLength)), Str(Repeat("c", contentMaxLength + 1))}
\* formData.get('title') and formData.get('content') of a request body
Forms == [title : Titles, content : Contents]

(***************************************************************************)
(* The handlers as steps. A call that completes is recorded in last.       *)
(***************************************************************************)
Free == [pc |-> "free"]

Completed(handler, params, bodyRead, form, response, updateCalls, errorView) ==
    [handler |-> handler, params |-> params, bodyRead |-> bodyRead,
     form |-> form, response |-> response, updateCalls |-> updateCalls,
     errorView |-> errorView]

NoForm == [title |-> Undefined, content |-> Undefined]
NoView == [tag |-> "none", children |-> <<>>]

\* A loader call: it has no await before its return.
LoaderCall(params) ==
    LET response == loader(notes, params)
    IN  /\ last' = Completed("loader", params, FALSE, NoForm, response, <<>>,
                             IF response.kind = "thrown"
                             THEN ErrorBoundary(response, params) ELSE NoView)
        /\ UNCHANGED <<notes, inflight, clientVars>>

\* An action call, up to `await request.formData()`. It takes the first
\* free slot.
ActionCall(r, params) ==
    /\ inflight[r] = Free
    /\ \A q \in 1..(r - 1) : inflight[q] # Free
    /\ LET thrown == noteIdRequired(params)
       IN  IF thrown # NoResponse
           THEN /\ last' = Completed("action", params, FALSE, NoForm, thrown,
                                     <<>>, NoView)
                /\ UNCHANGED inflight
           ELSE /\ inflight' = [inflight EXCEPT ![r] =
                                   [pc |-> "formData", params |-> params]]
                /\ UNCHANGED last
    /\ UNCHANGED <<notes, clientVars>>

\* The form data arrives: from there to the return of the errors, or to
\* `await updateNote(...)`.
ActionFormData(r, form) ==
    /\ inflight[r].pc = "formData"
    /\ LET params == inflight[r].params
           thrown == fieldsRequired(form)
       IN  IF thrown # NoResponse
           THEN /\ last' = Completed("action", params, TRUE, form, thrown,
                                     <<>>, NoView)
                /\ inflight' = [inflight EXCEPT ![r] = Free]
                /\ UNCHANGED notes
           ELSE LET title == form.title.value
                    content == form.content.value
                    errors == ActionErrors(title, content)
                    arg == updateNoteArg(params, title, content)
                IN  IF hasErrors(errors)
                    THEN /\ last' = Completed("action", params, TRUE, form,
                                json([status |-> "error", errors |-> errors], 400),
                                <<>>, NoView)
                         /\ inflight' = [inflight EXCEPT ![r] = Free]
                         /\ UNCHANGED notes
                    ELSE /\ notes' = updateNote(notes, arg)
                         /\ inflight' = [inflight EXCEPT ![r] =
                                [pc |-> "updateNote", params |-> params,
                                 form |-> form, updateCalls |-> <<arg>>]]
                         /\ UNCHANGED last
    /\ UNCHANGED clientVars

\* updateNote has completed: the action returns the redirect.
ActionRedirect(r) ==
    /\ inflight[r].pc = "updateNote"
    /\ last' = Completed("action", inflight[r].params, TRUE, inflight[r].form,
                         redirect(redirectUrl(inflight[r].params)),
                         inflight[r].updateCalls, NoView)
    /\ inflight' = [inflight EXCEPT ![r] = Free]
    /\ UNCHANGED <<notes, clientVars>>

InitNotes ==
    <<[id |-> "n1", title |-> "Shopping", content |-> "Milk and eggs"],
      [id |-> "n2", title |-> "Ideas", content |-> "Write them down"]>>

NoCall == Completed("none", [username |-> Undefined, noteId |-> Undefined],
                    FALSE, NoForm, NoResponse, <<>>, NoView)

InitServer ==
    /\ notes = InitNotes
    /\ inflight = [r \in Slots |-> Free]
    /\ last = NoCall

(***************************************************************************)
(* ErrorList, useHydrated, NoteEdit                                        *)
(***************************************************************************)
True == [kind |-> "boolean", value |-> TRUE]
Arr(seq) == [kind |-> "array", value |-> seq]

\* ErrorList({id, errors}): a <ul id={id}> of the errors, or nothing (Null)
\* when errors is null, undefined or empty.
ErrorList(id, errors) ==
    IF errors.kind = "array" /\ Len(errors.value) # 0
    THEN [kind |-> "element", tag |-> "ul", id |-> id, items |-> errors.value]
    ELSE Null

\* useFormAction(): the action of the route the component is rendered in
formAction == Str("/users/kody/notes/n1/edit")

\* Variant: the navigation's form action is not compared.
isSubmitting_anyAction(navigation) ==
    /\ navigation.state # "idle"
    /\ navigation.formMethod = Str("post")

isSubmitting(navigation) ==
    /\ navigation.state # "idle"
    /\ navigation.formMethod = Str("post")
    /\ navigation.formAction = formAction

\* actionData?.status === 'error' ? actionData.errors.fieldErrors : null
fieldErrors(actionData) ==
    IF actionData # Undefined /\ actionData.status = "error"
    THEN [kind |-> "object", value |-> actionData.errors.fieldErrors]
    ELSE Null

\* actionData?.status === 'error' ? actionData.errors.formErrors : null
formErrors(actionData) ==
    IF actionData # Undefined /\ actionData.status = "error"
    THEN Arr(actionData.errors.formErrors)
    ELSE Null

formHasErrors(actionData) ==
    LET fe == formErrors(actionData)
    IN  fe # Null /\ Len(fe.value) # 0

titleHasErrors(actionData) ==
    LET fe == fieldErrors(actionData)
    IN  fe # Null /\ Len(fe.value.title) # 0

contentHasErrors(actionData) ==
    LET fe == fieldErrors(actionData)
    IN  fe # Null /\ Len(fe.value.content) # 0

formErrorId(actionData) ==
    IF formHasErrors(actionData) THEN Str("form-error") ELSE Undefined

\* Variant: the title's error id is always set.
titleErrorId_always(actionData) == Str("title-error")

titleErrorId(actionData) ==
    IF titleHasErrors(actionData) THEN Str("title-error") ELSE Undefined

contentErrorId(actionData) ==
    IF contentHasErrors(actionData) THEN Str("content-error") ELSE Undefined

\* `x || undefined` of a boolean x
OrUndefined(b) == IF b THEN True ELSE Undefined

\* What one render of NoteEdit returns, from what its hooks return.
NoteEdit(h) ==
    LET fe == fieldErrors(h.actionData)
    IN  [tag |-> "NoteEdit",
         form |->
            [id |-> "note-editor",
             noValidate |-> h.hydrated,
             ariaInvalid |-> OrUndefined(formHasErrors(h.actionData)),
             ariaDescribedby |-> formErrorId(h.actionData)],
         title |->
            [id |-> "note-title",
             minLength |-> titleMinLength,
             maxLength |-> titleMaxLength,
             ariaInvalid |-> OrUndefined(titleHasErrors(h.actionData)),
             ariaDescribedby |-> titleErrorId(h.actionData)],
         content |->
            [id |-> "note-content",
             minLength |-> contentMinLength,
             maxLength |-> contentMaxLength,
             ariaInvalid |-> OrUndefined(contentHasErrors(h.actionData)),
             ariaDescribedby |-> contentErrorId(h.actionData)],
         errorLists |->
            <<ErrorList(titleErrorId(h.actionData),
                        IF fe = Null THEN Undefined ELSE Arr(fe.value.title)),
              ErrorList(contentErrorId(h.actionData),
                        IF fe = Null THEN Undefined ELSE Arr(fe.value.content)),
              ErrorList(formErrorId(h.actionData), formErrors(h.actionData))>>,
         submit |->
            [disabled |-> isSubmitting(h.navigation),
             status |-> IF isSubmitting(h.navigation) THEN "pending" ELSE "idle"]]

\* Variant: useState(true).
useStateHydrated_true == TRUE

\* useState(false): the state of useHydrated on the first render
useStateHydrated == FALSE

\* useEffect(() => setHydrated(true), []): what the mount effect sets
setHydrated == TRUE

(***************************************************************************)
(* The component in the browser: what the framework's hooks can return.    *)
(***************************************************************************)
Idle == [state |-> "idle", formMethod |-> Undefined, formAction |-> Undefined]

Navigations ==
    {Idle} \cup
    [state : {"submitting", "loading"},
     formMethod : {Undefined, Str("get"), Str("post")},
     formAction : {Undefined, formAction, Str("/users/kody/notes/n1/delete")}]

\* The first render, on the server or in the browser.
Mount ==
    /\ mount = "unmounted"
    /\ hooks' = [hooks EXCEPT !.hydrated = useStateHydrated]
    /\ view' = NoteEdit(hooks')
    /\ mount' = "rendered"
    /\ UNCHANGED serverVars

\* The mount effect runs, and its state update renders the component again.
MountEffect ==
    /\ mount = "rendered"
    /\ hooks' = [hooks EXCEPT !.hydrated = setHydrated]
    /\ view' = NoteEdit(hooks')
    /\ mount' = "mounted"
    /\ UNCHANGED serverVars

\* useNavigation() returns something else: the component renders again.
Navigate(navigation) ==
    /\ mount # "unmounted"
    /\ navigation # hooks.navigation
    /\ hooks' = [hooks EXCEPT !.navigation = navigation]
    /\ view' = NoteEdit(hooks')
    /\ UNCHANGED <<mount, serverVars>>

\* The action answered a submission of this form with errors: useActionData()
\* returns them, and the component renders again.
ActionData(form) ==
    /\ mount # "unmounted"
    /\ fieldsRequired(form) = NoResponse
    /\ LET errors == ActionErrors(form.title.value, form.content.value)
       IN  /\ hasErrors(errors)
           /\ hooks' = [hooks EXCEPT
                           !.actionData = [status |-> "error", errors |-> errors]]
    /\ view' = NoteEdit(hooks')
    /\ UNCHANGED <<mount, serverVars>>

\* The browser leaves the route.
Unmount ==
    /\ mount # "unmounted"
    /\ mount' = "unmounted"
    /\ hooks' = [actionData |-> Undefined, navigation |-> Idle,
                 hydrated |-> useStateHydrated]
    /\ view' = NoView
    /\ UNCHANGED serverVars

InitClient ==
    /\ hooks = [actionData |-> Undefined, navigation |-> Idle,
                hydrated |-> useStateHydrated]
    /\ mount = "unmounted"
    /\ view = NoView

(***************************************************************************)
(* Specifications: the handlers on the server, the component in the        *)
(* browser.                                                                *)
(***************************************************************************)
Init == InitServer /\ InitClient

Next ==
    \/ \E params \in LoaderParams : LoaderCall(params)
    \/ \E r \in Slots, params \in ActionParams : ActionCall(r, params)
    \/ \E r \in Slots, form \in Forms : ActionFormData(r, form)
    \/ \E r \in Slots : ActionRedirect(r)

Spec == Init /\ [][Next]_vars

NextUI ==
    \/ Mount
    \/ MountEffect
    \/ \E navigation \in Navigations : Navigate(navigation)
    \/ \E form \in Forms : ActionData(form)
    \/ Unmount

SpecUI == Init /\ [][NextUI]_vars

(***************************************************************************)
(* Properties of the action.                                               *)
(***************************************************************************)
\* The last completed call is an action call that got as far as reading a
\* form whose title and content are strings.
LastActionWithStrings ==
    /\ last.handler = "action"
    /\ last.bodyRead
    /\ last.form.title.kind = "string"
    /\ last.form.content.kind = "string"

TitleOutOfBounds(form) ==
    Len(form.title.value) < 1 \/ Len(form.title.value) > 100

ContentOutOfBounds(form) ==
    Len(form.content.value) < 1 \/ Len(form.content.value) > 10000

\* C1: every action call with a noteId and a string title and content
\* returns a non-empty fieldErrors.title when the title's length is < 1 or
\* > 100 and a non-empty fieldErrors.content when the content's length is
\* < 1 or > 10000, both in the same response when both are out of bounds.
C1_FieldErrorsAccumulate ==
    LastActionWithStrings =>
        /\ TitleOutOfBounds(last.form) =>
              /\ last.response.kind = "json"
              /\ Len(last.response.data.errors.fieldErrors.title) > 0
        /\ ContentOutOfBounds(last.form) =>
              /\ last.response.kind = "json"
              /\ Len(last.response.data.errors.fieldErrors.content) > 0

C1_Witness ==
    /\ LastActionWithStrings
    /\ TitleOutOfBounds(last.form)
    /\ ContentOutOfBounds(last.form)
    /\ last.response.kind = "json"
    /\ Len(last.response.data.errors.fieldErrors.title) > 0
    /\ Len(last.response.data.errors.fieldErrors.content) > 0

\* The action call in slot r returns its errors in this step.
ReturnsErrors(r) ==
    /\ inflight[r].pc = "formData"
    /\ inflight'[r] = Free
    /\ last'.response.kind = "json"

C2_ErrorResponse ==
    (LastActionWithStrings
        /\ (TitleOutOfBounds(last.form) \/ ContentOutOfBounds(last.form))) =>
        /\ last.response.kind = "json"
        /\ last.response.status = 400
        /\ last.response.data.status = "error"
        /\ \/ Len(last.response.data.errors.formErrors) > 0
           \/ Len(last.response.data.errors.fieldErrors.title) > 0
           \/ Len(last.response.data.errors.fieldErrors.content) > 0
        /\ last.updateCalls = <<>>

\* C2: an action call with a non-empty error list returns
\* {status: "error", errors} with HTTP status 400 and does not call
\* updateNote, and the step that returns the errors leaves the stored notes
\* unchanged.
C2_ErrorsNeverPersist ==
    /\ []C2_ErrorResponse
    /\ [][\A r \in Slots : ReturnsErrors(r) => notes' = notes]_vars

C2_Witness ==
    /\ LastActionWithStrings
    /\ ContentOutOfBounds(last.form)
    /\ ~TitleOutOfBounds(last.form)
    /\ last.response.kind = "json"
    /\ last.response.status = 400
    /\ last.updateCalls = <<>>
    /\ notes = InitNotes

\* The updateNote argument and the redirect a valid submission must produce.
SubmittedNote(call) ==
    [id |-> call.params.noteId,
     title |-> call.form.title.value,
     content |-> call.form.content.value]

ViewPath(params) ==
    "/users/" \o params.username.value \o "/notes/" \o params.noteId.value

C3_ValidCallRedirects ==
    (LastActionWithStrings
        /\ ~TitleOutOfBounds(last.form) /\ ~ContentOutOfBounds(last.form)) =>
        /\ last.response.kind = "redirect"
        /\ last.response.status \in 300..399
        /\ last.response.location = ViewPath(last.params)
        /\ last.updateCalls = <<SubmittedNote(last)>>

\* An action call awaiting updateNote has called it once, with what was
\* submitted, and has no response yet.
C3_AwaitingUpdate ==
    \A r \in Slots :
        inflight[r].pc = "updateNote" =>
            inflight[r].updateCalls = <<SubmittedNote(inflight[r])>>

\* C3: an action call with a noteId, a title of length 1..100 and a content
\* of length 1..10000 calls updateNote exactly once with {id, title, content}
\* as submitted, and returns, from the await of that call only, a redirect
\* to /users/<username>/notes/<noteId>.
C3_ValidSubmissionRedirects ==
    /\ []C3_ValidCallRedirects
    /\ []C3_AwaitingUpdate
    /\ [][(last' # last /\ last'.response.kind = "redirect") =>
            \E r \in Slots :
                /\ inflight[r].pc = "updateNote"
                /\ inflight[r].updateCalls = last'.updateCalls
                /\ inflight'[r] = Free]_vars

C3_Witness ==
    /\ LastActionWithStrings
    /\ last.form = [title |-> Str("Hi"), content |-> Str("Body")]
    /\ last.response = redirect("/users/kody/notes/n1")
    /\ last.updateCalls =
          <<[id |-> Str("n1"), title |-> "Hi", content |-> "Body"]>>
    /\ notes[1] = [id |-> "n1", title |-> "Hi", content |-> "Body"]

\* C4: an action call without the noteId param throws a 400 response with
\* the message 'noteId param is required' before the form body is read; it
\* returns no errors and never calls updateNote.
C4_MissingNoteId ==
    (last.handler = "action" /\ last.params.noteId = Undefined) =>
        /\ last.response = Thrown("noteId param is required", 400)
        /\ ~last.bodyRead
        /\ last.updateCalls = <<>>

C4_Witness ==
    /\ last.handler = "action"
    /\ last.params.noteId = Undefined
    /\ last.response.kind = "thrown"
    /\ last.response.text = "noteId param is required"

\* C5: an action call whose title or content is absent or not a string
\* throws a 400 response, returns no validation errors and never calls
\* updateNote.
C5_NonStringField ==
    (/\ last.handler = "action"
     /\ last.bodyRead
     /\ \/ last.form.title.kind # "string"
        \/ last.form.content.kind # "string") =>
        /\ last.response.kind = "thrown"
        /\ last.response.status = 400
        /\ last.response.text =
              (IF last.form.title.kind # "string"
               THEN "title must be a string" ELSE "content must be a string")
        /\ last.updateCalls = <<>>

C5_Witness ==
    /\ last.handler = "action"
    /\ last.bodyRead
    /\ last.form.title = Null
    /\ last.form.content.kind = "string"
    /\ last.response = Thrown("title must be a string", 400)

\* Every title and content passed to updateNote by a call.
InBounds(arg) ==
    /\ Len(arg.title) \in 1..100
    /\ Len(arg.content) \in 1..10000

\* C10: every stored note has a title of length 1..100 and a content of
\* length 1..10000, and no action call passes updateNote anything else.
C10_NotesStayInBounds ==
    /\ \A i \in 1..Len(notes) : InBounds(notes[i])
    /\ \A i \in 1..Len(last.updateCalls) : InBounds(last.updateCalls[i])
    /\ \A r \in Slots :
          inflight[r].pc = "updateNote" =>
              \A i \in 1..Len(inflight[r].updateCalls) :
                  InBounds(inflight[r].updateCalls[i])

\* The note was written with a title and a content at their upper bounds,
\* while another action call is suspended.
C10_Witness ==
    /\ Len(notes[1].title) = 100
    /\ Len(notes[1].content) = 10000
    /\ \E r \in Slots : inflight[r].pc = "formData"
    /\ \E r \in Slots : inflight[r].pc = "updateNote"

(***************************************************************************)
(* Properties of the loader.                                               *)
(***************************************************************************)
Stored(id) == \E i \in 1..Len(notes) : Str(notes[i].id) = id

\* C6: a loader call throws a 404 response exactly when no stored note has
\* the noteId param as its id, and otherwise returns the title and content
\* of the stored note with that id; it leaves the stored notes unchanged,
\* and the error view of a 404 shows the noteId.
C6_LoaderFindsOr404 ==
    [][(last' # last /\ last'.handler = "loader") =>
        LET id == last'.params.noteId
            response == last'.response
        IN  /\ notes' = notes
            /\ (response.kind = "thrown" /\ response.status = 404) <=> ~Stored(id)
            /\ Stored(id) =>
                  /\ response.kind = "json"
                  /\ \E i \in 1..Len(notes) :
                        /\ Str(notes[i].id) = id
                        /\ response.data =
                              [note |-> [title |-> notes[i].title,
                                         content |-> notes[i].content]]
            /\ ~Stored(id) =>
                  \E k \in 1..Len(last'.errorView.children) :
                      last'.errorView.children[k] = id]_vars

C6_Witness ==
    /\ last.handler = "loader"
    /\ last.params.noteId = Str("n9")
    /\ last.response.kind = "thrown"
    /\ last.response.status = 404
    /\ last.errorView.children[2] = Str("n9")
    /\ notes[1].title = "Hi"

(***************************************************************************)
(* Properties of NoteEdit.                                                 *)
(***************************************************************************)
Rendered == mount # "unmounted"

\* The submission in flight is one of this form: a pending navigation with
\* method post to this route's form action.
MatchingSubmission ==
    /\ hooks.navigation.state \in {"submitting", "loading"}
    /\ hooks.navigation.formMethod = Str("post")
    /\ hooks.navigation.formAction = Str("/users/kody/notes/n1/edit")

\* C7: in every render the Submit button is disabled, with status
\* 'pending', exactly when navigation.state is not 'idle', formMethod is
\* 'post' and formAction is this route's form action; it is enabled when the
\* navigation is idle, has another method or goes to another action.
C7_SubmitDisabledWhileSubmitting ==
    Rendered =>
        /\ view.submit.disabled <=> MatchingSubmission
        /\ view.submit.status = (IF MatchingSubmission THEN "pending" ELSE "idle")
        /\ hooks.navigation.state = "idle" => ~view.submit.disabled
        /\ hooks.navigation.formMethod # Str("post") => ~view.submit.disabled
        /\ hooks.navigation.formAction # Str("/users/kody/notes/n1/edit") =>
              ~view.submit.disabled

C7_Witness ==
    /\ mount = "mounted"
    /\ hooks.navigation.state = "submitting"
    /\ hooks.navigation.formMethod = Str("post")
    /\ hooks.navigation.formAction = Str("/users/kody/notes/n1/edit")
    /\ view.submit.disabled
    /\ view.submit.status = "pending"

\* The ids of the elements the ErrorLists of the last render put on the page.
ErrorListIds ==
    {view.errorLists[k].id :
        k \in {j \in 1..Len(view.errorLists) : view.errorLists[j] # Null}}

\* The last action result has status 'error'.
ErrorResult ==
    /\ hooks.actionData # Undefined
    /\ hooks.actionData.status = "error"

\* aria-invalid and aria-describedby of one target, against its error list.
AriaLinked(element, hasList, id) ==
    /\ element.ariaInvalid = True <=> hasList
    /\ element.ariaInvalid # True => element.ariaInvalid = Undefined
    /\ element.ariaDescribedby # Undefined <=> hasList
    /\ element.ariaDescribedby # Undefined =>
          /\ element.ariaDescribedby = Str(id)
          /\ element.ariaDescribedby \in ErrorListIds

\* C8: in every render, for the title field, the content field and the
\* form, aria-invalid is true and aria-describedby is set exactly when the
\* last action result has status 'error' and a non-empty error list for that
\* target, and an ErrorList with the id aria-describedby names ('title-error',
\* 'content-error', 'form-error') is rendered.
C8_AriaLinkage ==
    Rendered =>
        /\ AriaLinked(view.title,
              ErrorResult /\ Len(hooks.actionData.errors.fieldErrors.title) > 0,
              "title-error")
        /\ AriaLinked(view.content,
              ErrorResult /\ Len(hooks.actionData.errors.fieldErrors.content) > 0,
              "content-error")
        /\ AriaLinked(view.form,
              ErrorResult /\ Len(hooks.actionData.errors.formErrors) > 0,
              "form-error")

C8_Witness ==
    /\ Rendered
    /\ ErrorResult
    /\ Len(hooks.actionData.errors.fieldErrors.title) > 0
    /\ Len(hooks.actionData.errors.fieldErrors.content) = 0
    /\ view.title.ariaInvalid = True
    /\ view.title.ariaDescribedby = Str("title-error")
    /\ ErrorListIds = {Str("title-error")}
    /\ view.content.ariaInvalid = Undefined

\* C9: the form's noValidate is false on the renders before the mount
\* effect has run, true once it has run, and stays true until the
\* component is unmounted.
C9_NoValidateOnceHydrated ==
    /\ [](mount = "rendered" => view.form.noValidate = FALSE)
    /\ [](mount = "mounted" => view.form.noValidate = TRUE)
    /\ [][(Rendered /\ Rendered' /\ view.form.noValidate) =>
             view'.form.noValidate]_vars

\* The mount effect has run, and an action result and a navigation followed.
C9_Witness ==
    /\ mount = "mounted"
    /\ view.form.noValidate = TRUE
    /\ hooks.actionData # Undefined
    /\ hooks.navigation.state = "loading"
====
